---- MODULE Spec2Model ----
(***************************************************************************)
(* Model of the notebook fixer (src/fix_notebook.py) and of the Streamlit  *)
(* session controller (src/research_app.py).                               *)
(*                                                                         *)
(* JSON values are tagged records:                                         *)
(*   Str(s)   a string, s a sequence of one-character strings              *)
(*   Num(n)   a number                                                     *)
(*   Null     null / None                                                  *)
(*   List(l)  an array, l a sequence of values                             *)
(*   Obj(o)   an object as Python keeps it: a dict in insertion order,     *)
(*            o a sequence of <<key, value>> pairs with distinct keys      *)
(***************************************************************************)
EXTENDS Naturals, Sequences, FiniteSets, TLC

VARIABLES
    file,       \* content of the notebook file
    backup,     \* content of <notebook>.backup
    lastOp,     \* the function called last: "fix", "validate" or "none"
    lastOk,     \* what that call returned
    prev,       \* content of the notebook file before that call
    report,     \* what that call printed: the outcome of fix, the counts of validate
    pc,         \* position of main
    exitCode,   \* exit code of the script, once pc = "done"
    steps,      \* what each step of main returned, "notrun" before it runs
    wrote,      \* main has opened the notebook file for writing
    orig,       \* content of the notebook file when main started
    imported,          \* `from custom_research_assistant import ...` succeeded
    assistant,         \* st.session_state.assistant: "unset", "real" or "stub"
    historySet,        \* 'research_history' in st.session_state
    research_history,  \* st.session_state.research_history
    displayed,         \* the history entries the sidebar of the last run shows
    lastRun,           \* the last run of the script: its button and how it ended
    returned,          \* number of calls of assistant.research that have returned
    runs               \* number of runs of the script so far; the clock

callvars == <<lastOp, lastOk, prev, report>>
mainvars == <<pc, exitCode, steps, wrote, orig>>
nbvars == <<file, backup, lastOp, lastOk, prev, report, pc, exitCode, steps, wrote, orig>>
appvars == <<imported, assistant, historySet, research_history, displayed, lastRun,
             returned, runs>>
vars == <<file, backup, lastOp, lastOk, prev, report, pc, exitCode, steps, wrote, orig,
          imported, assistant, historySet, research_history, displayed, lastRun,
          returned, runs>>

----------------------------------------------------------------------------
(* Bounds of the model                                                     *)

MaxCells == 2
MaxStrLen == 2
MaxRuns == 7

----------------------------------------------------------------------------
(* JSON values                                                             *)

Str(s) == [t |-> "str", s |-> s]
Num(n) == [t |-> "num", n |-> n]
Null == [t |-> "null"]
List(l) == [t |-> "list", l |-> l]
Obj(o) == [t |-> "obj", o |-> o]

IsStr(v) == v.t = "str"
IsList(v) == v.t = "list"
IsObj(v) == v.t = "obj"

(* `needle in v` for an array and for a string v (substring)               *)
InList(v, needle) == \E i \in 1..Len(v.l) : v.l[i] = Str(needle)
InStr(v, needle) ==
    \E k \in 0..Len(v.s) :
        /\ k + Len(needle) <= Len(v.s)
        /\ \A j \in 1..Len(needle) : v.s[k + j] = needle[j]

(* len(v) is defined for arrays, objects and strings; iterating an object  *)
(* yields its keys and iterating a string its characters, each a string    *)
Sized(v) == v.t \in {"list", "obj", "str"}
Elements(v) ==
    CASE v.t = "list" -> v.l
      [] v.t = "obj" -> [i \in 1..Len(v.o) |-> Str(<<v.o[i][1]>>)]
      [] v.t = "str" -> [i \in 1..Len(v.s) |-> Str(<<v.s[i]>>)]

(* Python dict operations on an insertion-ordered sequence of pairs        *)
Has(d, k) == \E i \in 1..Len(d) : d[i][1] = k
Get(d, k) == d[CHOOSE i \in 1..Len(d) : d[i][1] = k][2]
Put(d, k, v) ==
    IF Has(d, k)
    THEN [i \in 1..Len(d) |-> IF d[i][1] = k THEN <<k, v>> ELSE d[i]]
    ELSE Append(d, <<k, v>>)
SetDefault(d, k, v) == IF Has(d, k) THEN d ELSE Append(d, <<k, v>>)

CELLS == <<"c", "e", "l", "l", "s">>
CELL_TYPE == <<"c", "e", "l", "l", "_", "t", "y", "p", "e">>
CODE == <<"c", "o", "d", "e">>
MARKDOWN == <<"m", "a", "r", "k", "d", "o", "w", "n">>
UNKNOWN == <<"u", "n", "k", "n", "o", "w", "n">>

(* A lone surrogate code point: json.loads accepts its \ud800 escape, the  *)
(* UTF-8 encoder of the output file rejects the character.                 *)
SURROGATE == "SUR"

----------------------------------------------------------------------------
(* str.splitlines(keepends=True)                                           *)

(* The terminators of str.splitlines. "\f" stands for every one-character *)
(* terminator other than "\n" and "\r" (vertical tab, form feed, the file, *)
(* group and record separators, NEL, LINE SEPARATOR, PARAGRAPH SEPARATOR),  *)
(* which the method treats alike; "\r\n" is one terminator.                *)
Terminators == {"\n", "\r", "\f"}

RECURSIVE SplitFrom(_, _, _)
SplitFrom(s, i, cur) ==
    IF i > Len(s)
    THEN IF cur = <<>> THEN <<>> ELSE <<cur>>
    ELSE IF s[i] = "\r" /\ i < Len(s) /\ s[i + 1] = "\n"
    THEN <<cur \o <<"\r", "\n">>>> \o SplitFrom(s, i + 2, <<>>)
    ELSE IF s[i] \in Terminators
    THEN <<Append(cur, s[i])>> \o SplitFrom(s, i + 1, <<>>)
    ELSE SplitFrom(s, i + 1, Append(cur, s[i]))

(* Variant: str.splitlines() without keepends                              *)
RECURSIVE SplitDropEnds(_, _, _)
SplitDropEnds(s, i, cur) ==
    IF i > Len(s)
    THEN IF cur = <<>> THEN <<>> ELSE <<cur>>
    ELSE IF s[i] = "\r" /\ i < Len(s) /\ s[i + 1] = "\n"
    THEN <<cur>> \o SplitDropEnds(s, i + 2, <<>>)
    ELSE IF s[i] \in Terminators
    THEN <<cur>> \o SplitDropEnds(s, i + 1, <<>>)
    ELSE SplitDropEnds(s, i + 1, Append(cur, s[i]))

splitlinesDropEnds(s) == SplitDropEnds(s, 1, <<>>)

splitlines(s) == SplitFrom(s, 1, <<>>)

(* cell['source'].splitlines(keepends=True) as a JSON array of strings     *)
SourceLines(s) == List([i \in 1..Len(splitlines(s)) |-> Str(splitlines(s)[i])])

----------------------------------------------------------------------------
(* Files                                                                   *)

Missing == [kind |-> "missing"]
EmptyFile == [kind |-> "empty"]
NotUtf8 == [kind |-> "not_utf8"]
NotJson == [kind |-> "not_json"]
(* A file holding JSON text: the document it parses to and its layout      *)
JsonFile(layout, doc) == [kind |-> "json", layout |-> layout, doc |-> doc]

(* json.loads / json.load of a file holding JSON text                      *)
json_loads(f) == f.doc

(* TextIOWrapper(encoding='utf-8').write rejects a lone surrogate          *)
RECURSIVE Unencodable(_)
Unencodable(v) ==
    CASE v.t = "str" -> \E i \in 1..Len(v.s) : v.s[i] = SURROGATE
      [] v.t = "list" -> \E i \in 1..Len(v.l) : Unencodable(v.l[i])
      [] v.t = "obj" -> \E i \in 1..Len(v.o) : Unencodable(v.o[i][2])
      [] OTHER -> FALSE

(* json.dump(data, f, indent=2, ensure_ascii=False)                        *)
json_dump(data) == JsonFile("indent2", data)

----------------------------------------------------------------------------
(* fix_notebook_encoding                                                   *)

(* Variant: the conversion without its isinstance test, so that a source   *)
(* that is no string raises AttributeError on splitlines                   *)
CellRaisesNoTypeTest(cell) ==
    \/ cell.t \in {"num", "null"}
    \/ IsList(cell) /\ InList(cell, CELL_TYPE)
    \/ IsStr(cell) /\ InStr(cell, CELL_TYPE)
    \/ /\ IsObj(cell)
       /\ Has(cell.o, "cell_type")
       /\ Has(cell.o, "source")
       /\ ~IsStr(Get(cell.o, "source"))

(* `'cell_type' not in cell` raises TypeError on a number or null; an      *)
(* array or a string that holds 'cell_type' raises at its `source`         *)
CellRaises(cell) ==
    \/ cell.t \in {"num", "null"}
    \/ IsList(cell) /\ InList(cell, CELL_TYPE)
    \/ IsStr(cell) /\ InStr(cell, CELL_TYPE)

(* Variant: the loop body without the metadata default                     *)
FixCellNoMetadata(cell) ==
    IF ~IsObj(cell) \/ ~Has(cell.o, "cell_type")
    THEN cell
    ELSE LET c1 == IF ~Has(cell.o, "source")
                   THEN Append(cell.o, <<"source", List(<<>>)>>)
                   ELSE IF IsStr(Get(cell.o, "source"))
                   THEN Put(cell.o, "source", SourceLines(Get(cell.o, "source").s))
                   ELSE cell.o
             c3 == IF Get(c1, "cell_type") = Str(CODE)
                   THEN SetDefault(SetDefault(c1, "outputs", List(<<>>)),
                                   "execution_count", Null)
                   ELSE c1
         IN  Obj(c3)

(* The body of the loop over the cells, for one cell                       *)
FixCell(cell) ==
    IF ~IsObj(cell) \/ ~Has(cell.o, "cell_type")
    THEN cell
    ELSE LET c1 == IF ~Has(cell.o, "source")
                   THEN Append(cell.o, <<"source", List(<<>>)>>)
                   ELSE IF IsStr(Get(cell.o, "source"))
                   THEN Put(cell.o, "source", SourceLines(Get(cell.o, "source").s))
                   ELSE cell.o
             c2 == SetDefault(c1, "metadata", Obj(<<>>))
             c3 == IF Get(c2, "cell_type") = Str(CODE)
                   THEN SetDefault(SetDefault(c2, "outputs", List(<<>>)),
                                   "execution_count", Null)
                   ELSE c2
         IN  Obj(c3)

(* Variant: the top-level values assigned whether or not the key exists    *)
FixTopOverwrite(d) ==
    Put(Put(Put(d, "metadata", Obj(<<>>)), "nbformat", Num(4)),
        "nbformat_minor", Num(4))

(* The top-level defaults                                                  *)
FixTop(d) ==
    SetDefault(SetDefault(SetDefault(d, "metadata", Obj(<<>>)),
                          "nbformat", Num(4)),
               "nbformat_minor", Num(4))

(* What a call returns and leaves behind: the file afterwards, and whether  *)
(* the call opened the file for writing                                    *)
FixResult(ok, outcome, f, written) ==
    [ok |-> ok, outcome |-> outcome, file |-> f, written |-> written]

fix_notebook_encoding(f) ==
    CASE f.kind = "missing" -> FixResult(FALSE, "error", f, FALSE)
      [] f.kind = "not_utf8" -> FixResult(FALSE, "unicode_error", f, FALSE)
      [] f.kind \in {"empty", "not_json"} -> FixResult(FALSE, "json_error", f, FALSE)
      [] OTHER ->
         LET data == json_loads(f) IN
         IF data.t \in {"num", "null"}
         THEN FixResult(FALSE, "error", f, FALSE)
         ELSE IF ~IsObj(data)
         THEN IF (IsList(data) /\ InList(data, CELLS)) \/ (IsStr(data) /\ InStr(data, CELLS))
              THEN FixResult(FALSE, "error", f, FALSE)
              ELSE FixResult(FALSE, "no_cells", f, FALSE)
         ELSE IF ~Has(data.o, "cells")
         THEN FixResult(FALSE, "no_cells", f, FALSE)
         ELSE LET cells == Get(data.o, "cells") IN
              IF ~Sized(cells)
              THEN FixResult(FALSE, "error", f, FALSE)
              ELSE IF \E i \in 1..Len(Elements(cells)) : CellRaises(Elements(cells)[i])
              THEN FixResult(FALSE, "error", f, FALSE)
              ELSE LET after == IF IsList(cells)
                                THEN List([i \in 1..Len(cells.l) |-> FixCell(cells.l[i])])
                                ELSE cells
                       fixed == Obj(Put(FixTop(data.o), "cells", after))
                   IN  IF Unencodable(fixed)
                       THEN FixResult(FALSE, "error", NotJson, TRUE)
                       ELSE FixResult(TRUE, "ok", json_dump(fixed), TRUE)

----------------------------------------------------------------------------
(* validate_notebook                                                       *)

(* cell.get('cell_type', 'unknown')                                        *)
CellTypeOf(cell) ==
    IF Has(cell.o, "cell_type") THEN Get(cell.o, "cell_type") ELSE Str(UNKNOWN)

(* cell.get raises on a cell that is no object; a list or an object as the *)
(* key of cell_types raises TypeError (unhashable)                         *)
CountRaises(cell) == ~IsObj(cell) \/ CellTypeOf(cell).t \in {"list", "obj"}

(* Variant: cell_types[cell_type] = 1, the running count forgotten         *)
RECURSIVE CountFromNoSum(_, _, _)
CountFromNoSum(cells, i, cell_types) ==
    IF i > Len(cells)
    THEN cell_types
    ELSE CountFromNoSum(cells, i + 1, Put(cell_types, CellTypeOf(cells[i]), 1))

(* cell_types[cell_type] = cell_types.get(cell_type, 0) + 1, over cells    *)
RECURSIVE CountFrom(_, _, _)
CountFrom(cells, i, cell_types) ==
    IF i > Len(cells)
    THEN cell_types
    ELSE LET cell_type == CellTypeOf(cells[i])
             n == IF Has(cell_types, cell_type) THEN Get(cell_types, cell_type) ELSE 0
         IN  CountFrom(cells, i + 1, Put(cell_types, cell_type, n + 1))

ValidateResult(ok, counts) == [ok |-> ok, counts |-> counts]

validate_notebook(f) ==
    IF f.kind # "json"
    THEN ValidateResult(FALSE, <<>>)
    ELSE LET data == json_loads(f) IN
         IF ~IsObj(data) \/ ~Has(data.o, "cells")
         THEN ValidateResult(FALSE, <<>>)
         ELSE LET cells == Get(data.o, "cells") IN
              IF ~Sized(cells)
              THEN ValidateResult(FALSE, <<>>)
              ELSE IF \E i \in 1..Len(Elements(cells)) : CountRaises(Elements(cells)[i])
              THEN ValidateResult(FALSE, <<>>)
              ELSE ValidateResult(TRUE, CountFrom(Elements(cells), 1, <<>>))

----------------------------------------------------------------------------
(* create_backup                                                           *)

BackupResult(ok, b) == [ok |-> ok, backup |-> b]

(* shutil.copy2(notebook_path, backup_path); copied tells whether the      *)
(* file system lets the copy be made                                       *)
create_backup(f, old, copied) ==
    IF f.kind = "missing" \/ ~copied
    THEN BackupResult(FALSE, old)
    ELSE BackupResult(TRUE, f)

----------------------------------------------------------------------------
(* The notebooks the model starts from                                     *)

SeqUpTo(S, n) == UNION {[1..k -> S] : k \in 0..n}

Alphabet == {"a", "\n", "\r"}
AB == <<"a", "\n", "b">>
X1 == <<"x", "=", "1">>
CRLF == <<"a", "\r", "\n", "b", "\n">>
FF == <<"a", "\f", "\f">>
SourceStrings == SeqUpTo(Alphabet, MaxStrLen) \cup {AB, X1, CRLF, FF}

WellFormedLines == List(<<Str(<<"a", "\n">>), Str(<<"b">>)>>)

CellTypeOptions ==
    {<<>>, << <<"cell_type", Str(CODE)>> >>, << <<"cell_type", Str(MARKDOWN)>> >>}
SourceOptions ==
    {<<>>, << <<"source", Null>> >>, << <<"source", WellFormedLines>> >>}
    \cup {<< <<"source", Str(s)>> >> : s \in SourceStrings}

(* Cells with every combination of cell_type and source                    *)
FirstCells == {Obj(ct \o src) : ct \in CellTypeOptions, src \in SourceOptions}

WellFormedCell ==
    Obj(<< <<"source", WellFormedLines>>,
           <<"metadata", Obj(<< <<"tags", List(<<>>)>> >>)>>,
           <<"cell_type", Str(CODE)>>,
           <<"execution_count", Num(1)>>,
           <<"outputs", List(<<Obj(<<>>)>>)>> >>)

(* The cells that follow the first: a cell without cell_type, a complete   *)
(* code cell, a number and an array in place of a cell, a cell whose       *)
(* cell_type is an array, a cell whose text holds a lone surrogate         *)
RestCells ==
    { Obj(<< <<"source", Str(AB)>> >>),
      WellFormedCell,
      Num(5),
      List(<<>>),
      Obj(<< <<"cell_type", List(<<>>)>>, <<"source", Str(<<"a">>)>> >>),
      Obj(<< <<"cell_type", Str(MARKDOWN)>>, <<"source", Str(<<SURROGATE>>)>> >>) }

CellLists ==
    {<<>>} \cup {<<c>> \o r : c \in FirstCells \cup RestCells,
                              r \in SeqUpTo(RestCells, MaxCells - 1)}

MetadataOptions ==
    {<<>>, << <<"metadata", Obj(<< <<"language", Str(<<"p", "y">>)>> >>)>> >>}
NbformatOptions == {<<>>, << <<"nbformat", Num(3)>> >>}
NbformatMinorOptions == {<<>>, << <<"nbformat_minor", Num(5)>> >>}

TopOptions ==
    {m \o n \o k : m \in MetadataOptions, n \in NbformatOptions,
                   k \in NbformatMinorOptions}

Documents ==
    {Obj(<< <<"cells", List(cs)>> >> \o top) : cs \in CellLists, top \in TopOptions}
    \cup {Obj(top) : top \in TopOptions}
    \cup {Obj(<< <<"cells", Num(0)>> >>),
          Obj(<< <<"cells", Obj(<<>>)>> >>),
          Obj(<< <<"cells", Str(<<"a">>)>> >>),
          List(<<Str(CELLS)>>),
          List(<<>>),
          Num(1)}

(* The files are found in some layout of their own; json.dump writes its   *)
(* two-space indented layout                                               *)
Files ==
    {Missing, EmptyFile, NotUtf8, NotJson}
    \cup {JsonFile("as_found", doc) : doc \in Documents}

----------------------------------------------------------------------------
(* Calls of the functions of fix_notebook.py on one notebook path          *)

NoSteps == [exists |-> "notrun", backup |-> "notrun", validate |-> "notrun",
            fix |-> "notrun", revalidate |-> "notrun"]

MainIdle ==
    /\ pc = "idle"
    /\ exitCode = 0
    /\ steps = NoSteps
    /\ wrote = FALSE
    /\ orig = file

NoRun ==
    [button |-> "none", outcome |-> "none", raisedAt |-> "none", shown |-> "none",
     attempts |-> 0, rendered |-> {}]

(* A browser session that has not run the script yet                       *)
AppIdle ==
    /\ assistant = "unset"
    /\ historySet = FALSE
    /\ research_history = <<>>
    /\ displayed = [rendered |-> FALSE, entries |-> <<>>]
    /\ lastRun = NoRun
    /\ returned = 0
    /\ runs = 0

Init ==
    /\ file \in Files
    /\ backup = Missing
    /\ lastOp = "none"
    /\ lastOk = FALSE
    /\ prev = file
    /\ report = <<>>
    /\ MainIdle
    /\ imported = TRUE
    /\ AppIdle

Fix ==
    LET r == fix_notebook_encoding(file) IN
    /\ file' = r.file
    /\ lastOp' = "fix"
    /\ lastOk' = r.ok
    /\ prev' = file
    /\ report' = <<r.outcome>>
    /\ UNCHANGED <<backup, pc, exitCode, steps, wrote, orig, appvars>>

Validate ==
    LET r == validate_notebook(file) IN
    /\ lastOp' = "validate"
    /\ lastOk' = r.ok
    /\ prev' = file
    /\ report' = r.counts
    /\ UNCHANGED <<file, backup, pc, exitCode, steps, wrote, orig, appvars>>

Next == Fix \/ Validate

Spec == Init /\ [][Next]_vars

----------------------------------------------------------------------------
(* Properties of fix_notebook_encoding and validate_notebook               *)

FixSucceeded == lastOp = "fix" /\ lastOk
CellsOf(f) == Elements(Get(f.doc.o, "cells"))
HasCellType(cell) == IsObj(cell) /\ Has(cell.o, "cell_type")

(* C1: fix is idempotent. When a fix has just succeeded, a fix run next    *)
(* succeeds as well and leaves the file content exactly as the first fix   *)
(* left it.                                                                *)
C1_FixIdempotent ==
    [][(FixSucceeded /\ lastOp' = "fix") => (lastOk' /\ file' = file)]_vars

(* A second fix has run on the output of a successful fix of a notebook    *)
(* that has cells.                                                         *)
C1_Witness ==
    /\ FixSucceeded
    /\ prev = file
    /\ Len(CellsOf(file)) > 0
    /\ \E i \in 1..Len(CellsOf(file)) : HasCellType(CellsOf(file)[i])

IsLineSequence(v) == IsList(v) /\ \A j \in 1..Len(v.l) : IsStr(v.l[j])

(* C2, as stated: after a successful fix every cell has a source that is a *)
(* line-sequence, has metadata and, if it is a code cell, outputs and      *)
(* execution_count, whatever the cell held before.                         *)
C2_EveryCellComplete ==
    FixSucceeded =>
        \A i \in 1..Len(CellsOf(file)) :
            LET cell == CellsOf(file)[i] IN
            /\ IsObj(cell)
            /\ Has(cell.o, "source")
            /\ IsLineSequence(Get(cell.o, "source"))
            /\ Has(cell.o, "metadata")
            /\ (Has(cell.o, "cell_type") /\ Get(cell.o, "cell_type") = Str(CODE))
                   => (Has(cell.o, "outputs") /\ Has(cell.o, "execution_count"))

(* C2, amended: after a successful fix every cell that is an object with a *)
(* cell_type key has a source that is not a single string (a line-sequence *)
(* when the source was missing or a string, its former value otherwise),   *)
(* has metadata and, if its cell_type is code, has outputs and             *)
(* execution_count; a cell without cell_type is left exactly as it was.    *)
C2_TypedCellsComplete ==
    FixSucceeded =>
        /\ Len(CellsOf(file)) = Len(CellsOf(prev))
        /\ \A i \in 1..Len(CellsOf(file)) :
            LET cell == CellsOf(file)[i]
                old == CellsOf(prev)[i]
            IN  IF HasCellType(old)
                THEN /\ IsObj(cell)
                     /\ Has(cell.o, "source")
                     /\ ~IsStr(Get(cell.o, "source"))
                     /\ IF ~Has(old.o, "source") \/ IsStr(Get(old.o, "source"))
                        THEN IsLineSequence(Get(cell.o, "source"))
                        ELSE Get(cell.o, "source") = Get(old.o, "source")
                     /\ Has(cell.o, "metadata")
                     /\ Get(cell.o, "cell_type") = Str(CODE)
                            => (Has(cell.o, "outputs") /\ Has(cell.o, "execution_count"))
                ELSE cell = old

(* A successful fix of a notebook holding a code cell that had neither     *)
(* source nor metadata nor outputs, next to a cell without cell_type.      *)
C2_Witness ==
    /\ FixSucceeded
    /\ prev # file
    /\ \E i \in 1..Len(CellsOf(prev)) :
           /\ HasCellType(CellsOf(prev)[i])
           /\ Get(CellsOf(prev)[i].o, "cell_type") = Str(CODE)
           /\ ~Has(CellsOf(prev)[i].o, "source")
           /\ ~Has(CellsOf(prev)[i].o, "metadata")
    /\ \E i \in 1..Len(CellsOf(prev)) : ~HasCellType(CellsOf(prev)[i])

TopKeys == {"metadata", "nbformat", "nbformat_minor"}
TopDefault(k) == IF k = "metadata" THEN Obj(<<>>) ELSE Num(4)

ExampleInput ==
    Obj(<< <<"cells", List(<<Obj(<< <<"cell_type", Str(CODE)>>,
                                    <<"source", Str(X1)>> >>)>>)>> >>)
ExampleOutput ==
    Obj(<< <<"cells", List(<<Obj(<< <<"cell_type", Str(CODE)>>,
                                    <<"source", List(<<Str(X1)>>)>>,
                                    <<"metadata", Obj(<<>>)>>,
                                    <<"outputs", List(<<>>)>>,
                                    <<"execution_count", Null>> >>)>>)>>,
           <<"metadata", Obj(<<>>)>>,
           <<"nbformat", Num(4)>>,
           <<"nbformat_minor", Num(4)>> >>)

(* C3: a successful fix writes a file in which each of metadata, nbformat  *)
(* and nbformat_minor that was missing has its default ({}, 4, 4) and each *)
(* that was present keeps its value; the notebook                          *)
(* {"cells": [{"cell_type": "code", "source": "x=1"}]} becomes the         *)
(* expected document.                                                      *)
C3_TopLevelDefaults ==
    FixSucceeded =>
        /\ \A k \in TopKeys :
              /\ Has(file.doc.o, k)
              /\ Get(file.doc.o, k) =
                     IF Has(prev.doc.o, k) THEN Get(prev.doc.o, k) ELSE TopDefault(k)
        /\ prev.doc = ExampleInput => file.doc = ExampleOutput

(* A successful fix of a notebook that had nbformat, lacked metadata and   *)
(* nbformat_minor, and held the code cell of the example.                  *)
C3_Witness ==
    /\ FixSucceeded
    /\ prev.layout = "as_found"
    /\ Has(prev.doc.o, "nbformat")
    /\ ~Has(prev.doc.o, "metadata")
    /\ ~Has(prev.doc.o, "nbformat_minor")
    /\ Get(prev.doc.o, "cells") = Get(ExampleInput.o, "cells")

RECURSIVE Concat(_)
Concat(lines) == IF lines = <<>> THEN <<>> ELSE Head(lines) \o Concat(Tail(lines))

LinesOf(v) == [j \in 1..Len(v.l) |-> v.l[j].s]

EndsWithTerminator(line) == Len(line) > 0 /\ line[Len(line)] \in Terminators

StringSourceSplit(old, cell) ==
    LET s == Get(old.o, "source").s
        new == Get(cell.o, "source")
    IN  /\ IsLineSequence(new)
        /\ Concat(LinesOf(new)) = s
        /\ \A j \in 1..(Len(new.l) - 1) : EndsWithTerminator(new.l[j].s)
        /\ \A j \in 1..Len(new.l) :
               \A n \in 1..(Len(new.l[j].s) - 1) :
                   new.l[j].s[n] \in Terminators
                       => (n = Len(new.l[j].s) - 1 /\ new.l[j].s[n] = "\r"
                           /\ new.l[j].s[n + 1] = "\n")
        /\ s = AB => LinesOf(new) = << <<"a", "\n">>, <<"b">> >>

(* C4, as stated: whenever a cell's source is a single string, a           *)
(* successful fix replaces it by the sequence of its lines, terminators    *)
(* kept; a source that is a sequence is left unchanged.                    *)
C4_EveryStringSourceSplit ==
    FixSucceeded =>
        \A i \in 1..Len(CellsOf(prev)) :
            LET old == CellsOf(prev)[i]
                cell == CellsOf(file)[i]
            IN  (IsObj(old) /\ Has(old.o, "source")) =>
                    /\ IsStr(Get(old.o, "source")) => StringSourceSplit(old, cell)
                    /\ IsList(Get(old.o, "source"))
                           => Get(cell.o, "source") = Get(old.o, "source")

(* C4, amended: in a cell that has a cell_type key, a source that is a     *)
(* single string is replaced by the sequence of its lines with the line    *)
(* terminators kept: the concatenation of the sequence is the original     *)
(* string, every element but possibly the last ends with a terminator, no  *)
(* element holds a terminator before its end, and "a\nb" becomes           *)
(* ["a\n", "b"]. A source that is a sequence is left unchanged, and so is  *)
(* a string source of a cell without cell_type.                            *)
C4_TypedStringSourceSplit ==
    FixSucceeded =>
        \A i \in 1..Len(CellsOf(prev)) :
            LET old == CellsOf(prev)[i]
                cell == CellsOf(file)[i]
            IN  (IsObj(old) /\ Has(old.o, "source")) =>
                    /\ (IsStr(Get(old.o, "source")) /\ Has(old.o, "cell_type"))
                           => StringSourceSplit(old, cell)
                    /\ (IsStr(Get(old.o, "source")) /\ ~Has(old.o, "cell_type"))
                           => Get(cell.o, "source") = Get(old.o, "source")
                    /\ IsList(Get(old.o, "source"))
                           => Get(cell.o, "source") = Get(old.o, "source")

(* A successful fix of a notebook whose typed cell had the source          *)
(* "a\r\nb\n", which is now the two lines "a\r\n" and "b\n".              *)
C4_Witness ==
    /\ FixSucceeded
    /\ \E i \in 1..Len(CellsOf(prev)) :
           /\ HasCellType(CellsOf(prev)[i])
           /\ Has(CellsOf(prev)[i].o, "source")
           /\ Get(CellsOf(prev)[i].o, "source") = Str(CRLF)
           /\ Len(Get(CellsOf(file)[i].o, "source").l) = 2

Validated == lastOp = "validate"

Countable(doc) ==
    /\ IsObj(doc)
    /\ Has(doc.o, "cells")
    /\ Sized(Get(doc.o, "cells"))
    /\ \A i \in 1..Len(Elements(Get(doc.o, "cells"))) :
           LET cell == Elements(Get(doc.o, "cells"))[i] IN
           /\ IsObj(cell)
           /\ Has(cell.o, "cell_type") => Get(cell.o, "cell_type").t \notin {"list", "obj"}

NumberOfType(cells, type) ==
    Cardinality({i \in 1..Len(cells) :
                    IF Has(cells[i].o, "cell_type")
                    THEN Get(cells[i].o, "cell_type") = type
                    ELSE type = Str(UNKNOWN)})

----------------------------------------------------------------------------
(* main: one run of the script                                             *)

Outcome(ok) == IF ok THEN "ok" ELSE "fail"

(* An earlier run may have left a backup file behind                       *)
InitMain ==
    /\ file \in Files
    /\ backup \in {Missing, NotJson}
    /\ lastOp = "none"
    /\ lastOk = FALSE
    /\ prev = file
    /\ report = <<>>
    /\ pc = "start"
    /\ exitCode = 0
    /\ steps = NoSteps
    /\ wrote = FALSE
    /\ orig = file
    /\ imported = TRUE
    /\ AppIdle

(* if not os.path.exists(notebook_path): sys.exit(1)                       *)
MainExists ==
    /\ pc = "start"
    /\ IF file.kind = "missing"
       THEN /\ steps' = [steps EXCEPT !.exists = "fail"]
            /\ exitCode' = 1
            /\ pc' = "done"
       ELSE /\ steps' = [steps EXCEPT !.exists = "ok"]
            /\ exitCode' = exitCode
            /\ pc' = "backup"
    /\ UNCHANGED <<file, backup, wrote, orig, callvars, appvars>>

(* Variant: a failed backup ends the run                                   *)
MainBackupFatal ==
    /\ pc = "backup"
    /\ \E copied \in BOOLEAN :
           LET r == create_backup(file, backup, copied) IN
           /\ backup' = r.backup
           /\ steps' = [steps EXCEPT !.backup = Outcome(r.ok)]
           /\ IF r.ok
              THEN pc' = "validate" /\ exitCode' = exitCode
              ELSE pc' = "done" /\ exitCode' = 1
    /\ UNCHANGED <<file, wrote, orig, callvars, appvars>>

(* create_backup(notebook_path), its result dropped                        *)
MainBackup ==
    /\ pc = "backup"
    /\ \E copied \in BOOLEAN :
           LET r == create_backup(file, backup, copied) IN
           /\ backup' = r.backup
           /\ steps' = [steps EXCEPT !.backup = Outcome(r.ok)]
    /\ pc' = "validate"
    /\ UNCHANGED <<file, exitCode, wrote, orig, callvars, appvars>>

(* if not validate_notebook(notebook_path): sys.exit(1)                    *)
MainValidate ==
    /\ pc = "validate"
    /\ LET r == validate_notebook(file) IN
       /\ steps' = [steps EXCEPT !.validate = Outcome(r.ok)]
       /\ IF r.ok
          THEN pc' = "fix" /\ exitCode' = exitCode
          ELSE pc' = "done" /\ exitCode' = 1
    /\ UNCHANGED <<file, backup, wrote, orig, callvars, appvars>>

(* Variant: the else branch of the fix without its sys.exit(1)             *)
MainFixNoExit ==
    /\ pc = "fix"
    /\ LET r == fix_notebook_encoding(file) IN
       /\ file' = r.file
       /\ wrote' = (wrote \/ r.written)
       /\ steps' = [steps EXCEPT !.fix = Outcome(r.ok)]
       /\ IF r.ok
          THEN pc' = "revalidate" /\ exitCode' = exitCode
          ELSE pc' = "done" /\ exitCode' = exitCode
    /\ UNCHANGED <<backup, orig, callvars, appvars>>

(* if fix_notebook_encoding(notebook_path): ... else: sys.exit(1)          *)
MainFix ==
    /\ pc = "fix"
    /\ LET r == fix_notebook_encoding(file) IN
       /\ file' = r.file
       /\ wrote' = (wrote \/ r.written)
       /\ steps' = [steps EXCEPT !.fix = Outcome(r.ok)]
       /\ IF r.ok
          THEN pc' = "revalidate" /\ exitCode' = exitCode
          ELSE pc' = "done" /\ exitCode' = 1
    /\ UNCHANGED <<backup, orig, callvars, appvars>>

(* if validate_notebook(notebook_path): ... else: sys.exit(1); falling off *)
(* the end of main ends the script with exit code 0                        *)
MainRevalidate ==
    /\ pc = "revalidate"
    /\ LET r == validate_notebook(file) IN
       /\ steps' = [steps EXCEPT !.revalidate = Outcome(r.ok)]
       /\ exitCode' = IF r.ok THEN 0 ELSE 1
    /\ pc' = "done"
    /\ UNCHANGED <<file, backup, wrote, orig, callvars, appvars>>

NextMain == MainExists \/ MainBackup \/ MainValidate \/ MainFix \/ MainRevalidate

SpecMain == InitMain /\ [][NextMain]_vars

----------------------------------------------------------------------------
(* Properties of main                                                      *)

Done == pc = "done"

(* C6: main ends with exit code 0 exactly when the notebook exists, the    *)
(* first validation succeeds, the fix succeeds and the final validation    *)
(* succeeds; in every other run it ends with exit code 1, whatever made    *)
(* the step fail, and no step runs after the failing one. A run that has   *)
(* not ended stands at one of the steps of main, none of which can block.  *)
C6_ExitCode ==
    /\ exitCode \in {0, 1}
    /\ Done =>
          /\ exitCode = 0 <=>
                 /\ steps.exists = "ok"
                 /\ steps.validate = "ok"
                 /\ steps.fix = "ok"
                 /\ steps.revalidate = "ok"
          /\ exitCode = 1 <=>
                 \/ steps.exists = "fail"
                 \/ steps.validate = "fail"
                 \/ steps.fix = "fail"
                 \/ steps.revalidate = "fail"
    /\ steps.exists # "ok" =>
          steps.backup = "notrun" /\ steps.validate = "notrun"
    /\ steps.validate # "ok" => steps.fix = "notrun"
    /\ steps.fix # "ok" => steps.revalidate = "notrun"
    /\ steps.fix = "fail" => Done
    /\ ~Done => /\ exitCode = 0
                /\ \A k \in {"exists", "validate", "fix", "revalidate"} :
                       steps[k] # "fail"
                /\ pc \in {"start", "backup", "validate", "fix", "revalidate"}

(* A run that ended with exit code 1 because the fix failed, after a       *)
(* validation that had succeeded.                                          *)
C6_Witness ==
    /\ Done
    /\ exitCode = 1
    /\ steps.validate = "ok"
    /\ steps.fix = "fail"
    /\ steps.revalidate = "notrun"

(* The exit code of a run on the notebook f, the backup left aside         *)
ExpectedExit(f) ==
    IF /\ f.kind # "missing"
       /\ validate_notebook(f).ok
       /\ fix_notebook_encoding(f).ok
       /\ validate_notebook(fix_notebook_encoding(f).file).ok
    THEN 0
    ELSE 1

(* C7: a failed backup is not fatal. Whether create_backup succeeded or    *)
(* failed, main goes on to the validation, and the exit code of the run is *)
(* the one the notebook alone decides; the backup has been attempted       *)
(* before the notebook file is opened for writing, and a failed attempt    *)
(* leaves the backup file as it was.                                       *)
C7_BackupNotFatal ==
    /\ Done => exitCode = ExpectedExit(orig)
    /\ (Done /\ steps.backup # "notrun") => steps.validate # "notrun"
    /\ (wrote \/ file # orig) => steps.backup # "notrun"
    /\ steps.backup = "ok" => backup = orig
    /\ steps.backup = "fail" => backup \in {Missing, NotJson}

(* A run whose backup failed and which went on to fix the notebook and end *)
(* with exit code 0.                                                       *)
C7_Witness ==
    /\ Done
    /\ steps.backup = "fail"
    /\ wrote
    /\ file # orig
    /\ exitCode = 0

----------------------------------------------------------------------------
(* create_streamlit_app: one run of the script per user interaction        *)

(* The buttons in the order the script renders them                        *)
Buttons ==
    <<"update_prefs", "research", "summarize", "recommend", "trends",
      "add_url", "process_file", "search_docs">>
AllButtons == {Buttons[i] : i \in 1..Len(Buttons)}
Position(b) == CHOOSE i \in 1..Len(Buttons) : Buttons[i] = b
UpTo(b) == {Buttons[i] : i \in 1..Position(b)}

(* The text the user has typed into the field the button reads             *)
Texts == {"", "q"}

(* What assistant.research returns                                         *)
Results == {[error |-> FALSE, cost |-> 1], [error |-> TRUE, cost |-> 0]}

(* The external call a button makes when its text is not empty             *)
CallOf(b) ==
    CASE b = "update_prefs" -> "update_preferences"
      [] b \in {"research", "summarize", "recommend", "trends"} -> "research"
      [] b = "add_url" -> "add_document_from_url"
      [] b = "process_file" -> "process_documents"
      [] b = "search_docs" -> "query_documents"
      [] OTHER -> "none"

(* st.session_state.research_history[-5:]                                  *)
Last5(h) == IF Len(h) <= 5 THEN h ELSE SubSeq(h, Len(h) - 4, Len(h))

(* The entry the research tab appends; datetime.now() is the number of the *)
(* run                                                                     *)
HistoryEntry(query, now, result) ==
    [topic |-> query, timestamp |-> now, result |-> result, cost |-> result.cost]

(* The research tab: the result appended to the history, then shown        *)
ResearchTab(h, query, now, result) == Append(h, HistoryEntry(query, now, result))

(* The summary, recommendation and trend tabs: the result shown only       *)
OtherTab(h, query, now, result) == h

(* A run that an exception leaves at the call `at`, the buttons up to b    *)
(* rendered                                                                *)
Raised(b, at, upto, n) ==
    [button |-> b, outcome |-> "raised", raisedAt |-> at, shown |-> "none",
     attempts |-> n, rendered |-> upto]

Completed(b, shown, n) ==
    [button |-> b, outcome |-> "completed", raisedAt |-> "none", shown |-> shown,
     attempts |-> n, rendered |-> AllButtons]

(* if 'assistant' not in st.session_state: ResearchAssistant(...) raised,  *)
(* st.error(...), return                                                   *)
RunInitFails(b) ==
    /\ assistant = "unset"
    /\ lastRun' = [button |-> b, outcome |-> "returned", raisedAt |-> "ResearchAssistant",
                   shown |-> "error", attempts |-> 1, rendered |-> {}]
    /\ displayed' = [rendered |-> FALSE, entries |-> <<>>]
    /\ UNCHANGED <<assistant, historySet, research_history, returned>>

(* The script from the session state on. b is the button clicked, text the *)
(* content of its field, raises whether the call of the button raises,     *)
(* result what the call returns (for add_document_from_url, error stands   *)
(* for a message without "Successfully"), statsRaises whether              *)
(* get_document_stats raises. The stub assistant has neither memory nor    *)
(* doc_processor: its run ends with AttributeError in the sidebar.         *)
RunBody(b, text, raises, result, statsRaises) ==
    LET a == IF assistant = "unset"
             THEN IF imported THEN "real" ELSE "stub"
             ELSE assistant
        h == research_history
        now == runs + 1
        sidebar == [rendered |-> TRUE, entries |-> Last5(h)]
        calls == b # "none" /\ (text # "" \/ b \in {"update_prefs", "process_file"})
    IN
    /\ assistant' = a
    /\ historySet' = TRUE
    /\ IF b = "update_prefs" /\ (a = "stub" \/ raises)
       THEN /\ lastRun' = Raised(b, "update_preferences", UpTo(b), 1)
            /\ displayed' = [rendered |-> FALSE, entries |-> <<>>]
            /\ UNCHANGED <<research_history, returned>>
       ELSE IF a = "stub"
       THEN /\ lastRun' = Raised(b, "session_stats", UpTo("update_prefs"),
                                 IF b = "update_prefs" THEN 1 ELSE 0)
            /\ displayed' = [rendered |-> FALSE, entries |-> <<>>]
            /\ UNCHANGED <<research_history, returned>>
       ELSE /\ displayed' = sidebar
            /\ IF calls /\ raises
               THEN /\ lastRun' = Raised(b, CallOf(b), UpTo(b), 1)
                    /\ UNCHANGED <<research_history, returned>>
               ELSE /\ research_history' =
                           IF calls /\ b = "research"
                           THEN ResearchTab(h, text, now, result)
                           ELSE IF calls /\ CallOf(b) = "research"
                           THEN OtherTab(h, text, now, result)
                           ELSE h
                    /\ returned' = IF calls /\ CallOf(b) = "research"
                                   THEN returned + 1
                                   ELSE returned
                    /\ lastRun' =
                           IF statsRaises
                           THEN Raised(b, "get_document_stats", AllButtons,
                                       IF calls THEN 1 ELSE 0)
                           ELSE Completed(b,
                                    CASE ~calls /\ b = "research" -> "warning"
                                      [] ~calls -> "none"
                                      [] b \in {"research", "add_url"} /\ result.error -> "error"
                                      [] b \in {"research", "add_url", "update_prefs",
                                                "process_file"} -> "success"
                                      [] OTHER -> "result",
                                    IF calls THEN 1 ELSE 0)

(* The inputs a run with button b depends on                               *)
TextsOf(b) == IF b \in {"none", "update_prefs", "process_file"} THEN {""} ELSE Texts
RaisesOf(b) == IF b = "none" THEN {FALSE} ELSE BOOLEAN
ResultsOf(b) ==
    IF b \in {"research", "summarize", "recommend", "trends", "add_url"}
    THEN Results
    ELSE {[error |-> FALSE, cost |-> 1]}

(* One run of the script, with the button b clicked or with none           *)
ScriptRun(b) ==
    /\ runs < MaxRuns
    /\ runs' = runs + 1
    /\ \/ RunInitFails(b)
       \/ \E text \in TextsOf(b), raises \in RaisesOf(b), result \in ResultsOf(b),
             statsRaises \in BOOLEAN :
              RunBody(b, text, raises, result, statsRaises)
    /\ UNCHANGED <<imported, nbvars>>

(* A button can be clicked when the last run has rendered it; any other    *)
(* interaction, and the opening of the page, runs the script with no       *)
(* button set                                                              *)
Clickable(b) == b \in lastRun.rendered

Rerun ==
    /\ lastRun.outcome \in {"none", "completed", "raised", "returned"}
    /\ ScriptRun("none")

UpdatePreferences ==
    /\ Clickable("update_prefs")
    /\ ScriptRun("update_prefs")

StartResearch ==
    /\ Clickable("research")
    /\ ScriptRun("research")

GenerateSummary ==
    /\ Clickable("summarize")
    /\ ScriptRun("summarize")

GetRecommendations ==
    /\ Clickable("recommend")
    /\ ScriptRun("recommend")

AnalyzeTrends ==
    /\ Clickable("trends")
    /\ ScriptRun("trends")

AddFromUrl ==
    /\ Clickable("add_url")
    /\ ScriptRun("add_url")

ProcessUploadedFile ==
    /\ Clickable("process_file")
    /\ ScriptRun("process_file")

SearchDocuments ==
    /\ Clickable("search_docs")
    /\ ScriptRun("search_docs")

InitApp ==
    /\ file = Missing
    /\ backup = Missing
    /\ lastOp = "none"
    /\ lastOk = FALSE
    /\ prev = file
    /\ report = <<>>
    /\ MainIdle
    /\ imported \in BOOLEAN
    /\ AppIdle

NextApp ==
    \/ Rerun
    \/ UpdatePreferences
    \/ StartResearch
    \/ GenerateSummary
    \/ GetRecommendations
    \/ AnalyzeTrends
    \/ AddFromUrl
    \/ ProcessUploadedFile
    \/ SearchDocuments

SpecApp == InitApp /\ [][NextApp]_vars

----------------------------------------------------------------------------
(* Properties of the session                                               *)

ExternalCalls ==
    {"research", "add_document_from_url", "process_documents", "query_documents",
     "get_document_stats", "update_preferences"}

IsPrefix(h, g) == Len(h) <= Len(g) /\ SubSeq(g, 1, Len(h)) = h

(* C8: every result that a call of research made from the UI returned is   *)
(* in the research history exactly once, as an entry with the topic, a     *)
(* timestamp, the result and its cost: the history has as many entries as  *)
(* research calls have returned.                                           *)
C8_EveryResultInHistory ==
    /\ Len(research_history) = returned
    /\ \A i \in 1..Len(research_history) :
           /\ DOMAIN research_history[i] = {"topic", "timestamp", "result", "cost"}
           /\ research_history[i].cost = research_history[i].result.cost

(* C9: when an external call of the assistant made for a user action       *)
(* raises, the exception is caught at the call and shown as a message: the *)
(* run of the script completes, the call has been made once, and the       *)
(* research history and the assistant object are as before the action.     *)
C9_ExceptionsCaught ==
    [][(lastRun'.button # "none" /\ lastRun'.raisedAt \in ExternalCalls) =>
           /\ lastRun'.outcome = "completed"
           /\ lastRun'.shown = "error"
           /\ lastRun'.attempts <= 1
           /\ research_history' = research_history
           /\ (assistant # "unset" => assistant' = assistant)]_vars

(* C10: the research history is append-only and a run of the script does   *)
(* not reset it, and whenever the handling of a user action completes the  *)
(* sidebar shows the last min(5, n) entries of the history as it then      *)
(* stands, in append order.                                                *)
C10_SidebarShowsLatest ==
    [][/\ IsPrefix(research_history, research_history')
       /\ (lastRun'.outcome = "completed" /\ lastRun'.button # "none") =>
              /\ displayed'.rendered
              /\ displayed'.entries = Last5(research_history')]_vars

(* What the research method of the fallback ResearchAssistant returns: the *)
(* 'not available' findings, no sources, cost 0.0 and 0 tokens, and no     *)
(* 'timestamp' key.  The fallback class has no memory and no doc_processor *)
(* attribute, which is why RunBody raises at session_stats when it is used. *)
StubResult(query) ==
    [query |-> query,
     findings |-> "Research functionality not available - please run the notebook first",
     sources |-> <<>>, cost |-> 0, tokens_used |-> 0]

(* C11: when the real assistant cannot be imported and the fallback        *)
(* ResearchAssistant is in use, the session does not fail: every run of    *)
(* the script completes and offers the Research button, and a run in which *)
(* a non-empty query is submitted calls research once, shows its 'not      *)
(* available' result and appends it to the research history.               *)
C11_StubSessionWorks ==
    [][assistant' = "stub" =>
           /\ lastRun'.outcome = "completed"
           /\ "research" \in lastRun'.rendered
           /\ (lastRun'.button = "research" /\ lastRun'.attempts = 1) =>
                  /\ lastRun'.shown = "success"
                  /\ \E text \in Texts \ {""} :
                         research_history' =
                             Append(research_history,
                                    HistoryEntry(text, runs', StubResult(text)))]_vars

====
